---- MODULE Spec2Model ----
(***************************************************************************)
(* Model of the muMap core: the Mesh class of src/meshcorr/tools/          *)
(* mesh_class.py (lazy caches of laplacian, mass matrix, eigenbasis,       *)
(* geodesic matrix, normals; v, f, k and g setters; indexing, decimate,     *)
(* upsample; the in-place modifiers; reads whose computation raises; two   *)
(* threads in one getter) and the product manifold filter of               *)
(* src/meshcorr/product_manifold_filters/product_manifold_filter.py.       *)
(*                                                                         *)
(* Conventions.  A numpy array of size 0 (np.array([])) is the empty       *)
(* tuple << >>.  Vertex indices are 1-based in the Mesh part.  A vertex    *)
(* is one integer coordinate (a surface reduced to one coordinate axis);   *)
(* a face is a triple of vertex indices.  The results of the external igl  *)
(* routines are values determined by their arguments and nothing else,     *)
(* written as tagged tuples.                                               *)
(***************************************************************************)
EXTENDS Integers, Sequences, FiniteSets, TLC

(* ----------------------------- bounds ---------------------------------- *)
NVerts    == 4   \* vertices of the source mesh
MaxCoord  == 2   \* largest vertex coordinate
MaxRank   == 2   \* largest rank k
MaxOps    == 1   \* setter and resolution-changing calls in one run
MaxCalls  == 2   \* cap of each computation counter
MaxTarget == 5   \* largest upsample target
MaxIter   == 2   \* largest number of refinement rounds
FloatBits == 6   \* a float below 2^-FloatBits underflows to 0

(* ------------------------- program constants --------------------------- *)
GeodesicExactLimit == 500   \* Mesh.g: exact geodesics up to this many vertices
DecimateProxySize  == 500   \* Mesh.g: proxy resolution above the limit

Inf == 999                  \* distance between vertices no edge path joins

VARIABLES
  mesh,     \* the source Mesh: its private fields
  calls,    \* computations invoked on the source since v, f, k or g was
            \* last assigned
  mut,      \* the last change of v, f or k, with the rank and eigenbasis
            \* cache it found
  res,      \* the Mesh returned by the last indexing, decimate or upsample
  resInfo,  \* that call: operation, idx, whether it raised, the source's
            \* v, f, g and field names at the call, whether geodesicMatrix
            \* was read on the result since and the computations that took
  ops       \* number of setter and resolution-changing calls so far

meshVars == <<mesh, calls, mut, res, resInfo, ops>>

VARIABLES
  fin,    \* the arguments of the refinement call
  frun,   \* its locals: i, j, sigma, the rounds done so far, a raised error
  fseed,  \* the matrices the strategy was called on before the loop
  fpc,    \* where the call is: "idle", "seed", "loop", "done", "error"
  fret    \* what the call returned or raised

filterVars == <<fin, frun, fseed, fpc, fret>>

VARIABLES
  exc,    \* the last read or in-place modifier of the source mesh that could
          \* raise: the call, and the computation that raised in it ("none"
          \* when the call returned)
  thr,    \* two threads reading one derived property of the source mesh: the
          \* property, where each thread is, the value each got
  gsup    \* the geodesic matrix last supplied from outside, to the
          \* constructor or to the g setter (<< >> when none was)

auxVars == <<exc, thr, gsup>>

(* --------------------------- small helpers ----------------------------- *)
Abs(x) == IF x < 0 THEN -x ELSE x

Min2(a, b) == IF a <= b THEN a ELSE b

Range(s) == {s[t] : t \in DOMAIN s}

\* numpy fancy indexing a[idx] on the first axis
Take(a, idx) == [t \in 1..Len(idx) |-> a[idx[t]]]

\* numpy a[..., :k] along the last axis: the first k entries, all of a when
\* it has fewer, all but the last -k for a negative k
Slice(a, k) ==
  LET n == IF k >= 0 THEN Min2(k, Len(a))
           ELSE IF Len(a) + k > 0 THEN Len(a) + k ELSE 0
  IN  [t \in 1..n |-> a[t]]

\* a numpy array held in memory: every entry computed once
Array(s) == SubSeq(s, 1, Len(s))

\* strictly increasing index sequences of length n over 1..m
RECURSIVE IncSeqs(_, _)
IncSeqs(n, m) ==
  IF n = 0 THEN {<< >>}
  ELSE IF m < n THEN {}
  ELSE IncSeqs(n, m - 1) \cup {Append(s, m) : s \in IncSeqs(n - 1, m - 1)}

(* ------------------------ external geometry ---------------------------- *)
\* triangle strip over n vertices: the connectivity of a re-meshed surface
Strip(n) == [t \in 1..(IF n >= 3 THEN n - 2 ELSE 0) |-> <<t, t + 1, t + 2>>]

\* triangle fan around vertex 1
Fan(n) == [t \in 1..(IF n >= 3 THEN n - 2 ELSE 0) |-> <<1, t + 1, t + 2>>]

\* igl.cotmatrix
cotmatrix(v, f) == <<"cotmatrix", v, f>>

\* igl.massmatrix(..., MASSMATRIX_TYPE_VORONOI)
massmatrix(v, f) == <<"massmatrix", v, f>>

\* igl.per_vertex_normals(..., weighting = 0)
per_vertex_normals(v, f) == <<"normals", v, f>>

\* util.laplace_eigen_decomposition: the k lowest eigenpairs, ascending;
\* evals has k entries, evecs has k columns
laplace_eigen_decomposition(l, m, k) ==
  << [n \in 1..k |-> <<"eval", n, l, m>>],
     [n \in 1..k |-> <<"evec", n, l, m>>] >>

\* length of the mesh edge a-b, Inf when no face has that edge
EdgeLen(v, f, a, b) ==
  IF a = b THEN 0
  ELSE IF \E t \in DOMAIN f : {a, b} \subseteq Range(f[t])
       THEN Abs(v[a] - v[b])
       ELSE Inf

\* all-pairs shortest edge paths through intermediate vertices 1..n
RECURSIVE ShortestPaths(_, _, _)
ShortestPaths(v, f, n) ==
  IF n = 0
  THEN Array([p \in 1..Len(v) |->
               Array([q \in 1..Len(v) |-> EdgeLen(v, f, p, q)])])
  ELSE LET D == ShortestPaths(v, f, n - 1)
       IN  Array([p \in 1..Len(v) |->
                   Array([q \in 1..Len(v) |->
                            Min2(D[p][q], Min2(Inf, D[p][n] + D[n][q]))])])

\* util.geodesicMatrix: exact all-pairs geodesic distances
geodesicMatrix(v, f) == ShortestPaths(v, f, Len(v))

\* numpy g[idx][:, idx]
Restrict(g, idx) ==
  Array([p \in 1..Len(idx) |-> Array([q \in 1..Len(idx) |-> g[idx[p]][idx[q]]])])

\* index of the vertex of v nearest to coordinate x (the lowest on a tie)
Nearest(v, x) ==
  CHOOSE p \in 1..Len(v) :
    /\ \A q \in 1..Len(v) : Abs(v[p] - x) <= Abs(v[q] - x)
    /\ \A q \in 1..(p - 1) : Abs(v[q] - x) > Abs(v[p] - x)

\* util.extrapolate_geodesic_matrix(v, vNew, g, f): the distance of two
\* vertices of vNew is the distance in g of their nearest vertices of v
extrapolate_geodesic_matrix(v, vNew, g, f) ==
  LET near == Array([p \in 1..Len(vNew) |-> Nearest(v, vNew[p])])
  IN  Restrict(g, near)

\* util.vedo_decimate(v, f, N): the index sequences a decimation to n
\* vertices can keep; the proxy is v[idx] with a fresh triangulation
vedo_decimate_idx(v, n) == IncSeqs(n, Len(v))

vedo_decimate_v(v, idx) == Take(v, idx)

vedo_decimate_f(idx) == Strip(Len(idx))

\* util.vedo_subdivide(v, f): a midpoint between consecutive vertices
vedo_subdivide_v(v) ==
  [t \in 1..(2 * Len(v) - 1) |->
    IF t % 2 = 1 THEN v[(t + 1) \div 2]
    ELSE (v[t \div 2] + v[t \div 2 + 1]) \div 2]

\* the faces of the subdivided mesh of vertices v
vedo_subdivide_f(v) == Strip(Len(v))

vedo_subdivide_idx(v) == [t \in 1..(2 * Len(v) - 1) |-> (t + 1) \div 2]

\* util.reorder_mesh(v, f, idx): vertices in the order idx, faces renamed
reorder_mesh_v(v, idx) == Take(v, idx)

reorder_mesh_f(f, idx) ==
  LET pos(a) == CHOOSE t \in 1..Len(idx) : idx[t] = a
  IN  [t \in 1..Len(f) |-> <<pos(f[t][1]), pos(f[t][2]), pos(f[t][3])>>]

(* ------------------------------ Mesh ----------------------------------- *)
\* the empty dict of scalar fields
NoScalars == [fn \in {} |-> << >>]

\* Mesh.__init__: the caches other than g start empty, scalars start empty
Mesh(v, f, g, k, type) ==
  [v |-> v, f |-> f, g |-> g, k |-> k,
   l |-> << >>, mass |-> << >>, normals |-> << >>,
   eigen |-> << << >>, << >> >>,
   scalars |-> NoScalars, type |-> type]

\* Mesh.N
N(m) == Len(m.v)

NoCalls == [l |-> 0, mass |-> 0, eigen |-> 0, g |-> 0, normals |-> 0]

\* The getters take and return a pair [m, c]: the mesh and the computation
\* counters.  The value a getter returns is the field of the mesh it returns.

\* Mesh.l getter without the test of the cache
Mesh_l_uncached(st) ==
  [m |-> [st.m EXCEPT !.l = cotmatrix(st.m.v, st.m.f)],
   c |-> [st.c EXCEPT !.l = @ + 1]]

\* Mesh.l getter
Mesh_l(st) ==
  IF st.m.l = << >>
  THEN [m |-> [st.m EXCEPT !.l = cotmatrix(st.m.v, st.m.f)],
        c |-> [st.c EXCEPT !.l = @ + 1]]
  ELSE st

\* Mesh.mass getter
Mesh_mass(st) ==
  IF st.m.mass = << >>
  THEN [m |-> [st.m EXCEPT !.mass = massmatrix(st.m.v, st.m.f)],
        c |-> [st.c EXCEPT !.mass = @ + 1]]
  ELSE st

\* Mesh.normals getter
Mesh_normals(st) ==
  IF st.m.normals = << >>
  THEN [m |-> [st.m EXCEPT !.normals = per_vertex_normals(st.m.v, st.m.f)],
        c |-> [st.c EXCEPT !.normals = @ + 1]]
  ELSE st

\* Mesh.eigen getter: solves when either array of the cache has size 0;
\* the arguments self.l, self.mass, self.k are read in this order
Mesh_eigen(st) ==
  IF \E n \in 1..2 : st.m.eigen[n] = << >>
  THEN LET s1 == Mesh_l(st)
           s2 == Mesh_mass(s1)
       IN  [m |-> [s2.m EXCEPT
                     !.eigen = laplace_eigen_decomposition(s2.m.l, s2.m.mass, s2.m.k)],
            c |-> [s2.c EXCEPT !.eigen = @ + 1]]
  ELSE st

\* Mesh.g getter without the test of the cache
Mesh_g_uncached(st) ==
  [m |-> [st.m EXCEPT !.g = geodesicMatrix(st.m.v, st.m.f)],
   c |-> [st.c EXCEPT !.g = @ + 1]]

\* Mesh.g getter: exact up to GeodesicExactLimit vertices, above it the
\* geodesics of a decimated proxy extrapolated to all vertices
Mesh_g(st) ==
  IF st.m.g = << >>
  THEN LET m   == st.m
           idx == CHOOSE i \in vedo_decimate_idx(m.v, DecimateProxySize) : TRUE
           pv  == vedo_decimate_v(m.v, idx)
           pf  == vedo_decimate_f(idx)
           new == IF N(m) <= GeodesicExactLimit
                  THEN geodesicMatrix(m.v, m.f)
                  ELSE extrapolate_geodesic_matrix(pv, m.v, geodesicMatrix(pv, pf), pf)
       IN  [m |-> [m EXCEPT !.g = new], c |-> [st.c EXCEPT !.g = @ + 1]]
  ELSE st

\* Mesh.k setter that empties the cache whatever the new rank
Mesh_set_k_clear(m, k) == [m EXCEPT !.eigen = << << >>, << >> >>, !.k = k]

\* Mesh.k setter that leaves the cache as it is
Mesh_set_k_keep(m, k) == [m EXCEPT !.k = k]

\* Mesh.k setter: a rank not above the current one cuts both cached arrays
\* to their first k entries along the last axis, a larger one empties them
Mesh_set_k(m, k) ==
  [m EXCEPT !.eigen = IF k <= m.k
                      THEN [n \in 1..2 |-> Slice(m.eigen[n], k)]
                      ELSE << << >>, << >> >>,
            !.k = k]

\* Mesh.v setter
Mesh_set_v(m, v) == [m EXCEPT !.v = v]

\* Mesh.f setter
Mesh_set_f(m, f) == [m EXCEPT !.f = f]

\* the copy of every scalar field at the vertices idx
IndexScalars(scalars, idx) ==
  [fn \in DOMAIN scalars |-> Take(scalars[fn], idx)]

\* an indexing that resamples the source in place and returns it
Mesh_getitem_inplace(st, idx) ==
  LET m2 == [st.m EXCEPT !.v = Take(st.m.v, idx), !.f = << >>,
                         !.scalars = IndexScalars(st.m.scalars, idx)]
  IN  [src |-> [m |-> m2, c |-> st.c], res |-> m2]

\* Mesh.__getitem__: [src, res], the source after the call and the result
Mesh_getitem(st, idx) ==
  LET m  == st.m
      v  == IF Len(idx) = N(m) THEN reorder_mesh_v(m.v, idx) ELSE Take(m.v, idx)
      f  == IF Len(idx) = N(m) THEN reorder_mesh_f(m.f, idx) ELSE << >>
      s1 == IF m.g = << >> THEN st ELSE Mesh_g(st)
      g  == IF m.g = << >> THEN << >> ELSE Restrict(s1.m.g, idx)
      s2 == Mesh_eigen(s1)
  IN  [src |-> s2,
       res |-> [Mesh(v, f, g, s2.m.k, s2.m.type) EXCEPT
                  !.scalars = IndexScalars(s2.m.scalars, idx)]]

\* Mesh.decimate that hands no geodesic matrix to the result
Mesh_decimate_drop_g(st, idx) ==
  [src |-> st,
   res |-> [Mesh(vedo_decimate_v(st.m.v, idx), vedo_decimate_f(idx), << >>,
                 st.m.k, st.m.type) EXCEPT
              !.scalars = IndexScalars(st.m.scalars, idx)]]

\* Mesh.decimate with the index sequence idx the decimation returned
Mesh_decimate(st, idx) ==
  LET m  == st.m
      v  == vedo_decimate_v(m.v, idx)
      f  == vedo_decimate_f(idx)
      s1 == IF m.g = << >> THEN st ELSE Mesh_g(st)
      g  == IF m.g = << >> THEN << >> ELSE Restrict(s1.m.g, idx)
  IN  [src |-> s1,
       res |-> [Mesh(v, f, g, m.k, m.type) EXCEPT
                  !.scalars = IndexScalars(m.scalars, idx)]]

\* the loop of Mesh.upsample: subdivide while there are fewer than target
\* vertices
RECURSIVE SubdivideTo(_, _)
SubdivideTo(v, target) ==
  IF Len(v) < target THEN SubdivideTo(vedo_subdivide_v(v), target) ELSE v

\* Mesh.upsample: the result carries the extrapolated geodesic matrix and
\* no scalar field; idx is bound only when the loop ran
Mesh_upsample(st, target) ==
  LET m  == st.m
      v  == SubdivideTo(m.v, target)
      f  == IF Len(v) = N(m) THEN m.f ELSE vedo_subdivide_f(v)
      s1 == Mesh_g(st)
      g  == extrapolate_geodesic_matrix(m.v, v, s1.m.g, m.f)
  IN  [src |-> s1,
       res |-> Mesh(v, f, g, m.k, m.type),
       bound |-> N(m) < target]

(* ------------------------- inputs of the model ------------------------- *)
\* vertex arrays: a bump of height c between two end vertices at 0
VSet == {[p \in 1..NVerts |-> IF p = 1 \/ p = NVerts THEN 0 ELSE c] : c \in 1..MaxCoord}

FSet == {Strip(NVerts), Fan(NVerts)}

Ranks == 0..MaxRank

FieldNames == {"a", "b"}

\* index arrays for mesh[idx]: all vertices but one, all vertices in order,
\* all vertices reversed
IdxSet ==
  IncSeqs(NVerts - 1, NVerts)
    \cup {[t \in 1..NVerts |-> t], [t \in 1..NVerts |-> NVerts + 1 - t]}

\* a per-vertex scalar field: the label of each vertex
VertexLabels(m) == [p \in 1..N(m) |-> p]

NoResult == Mesh(<< >>, << >>, << >>, 0, "")

NoInfo == [op |-> "none", idx |-> << >>, raised |-> FALSE, v0 |-> << >>,
           f0 |-> << >>, g0 |-> << >>, names0 |-> {}, gcalls |-> 0,
           gread |-> FALSE]

(* ------------------------------ Init ----------------------------------- *)
\* a Mesh as constructed: with faces, with or without a supplied geodesic
\* matrix, any rank
MeshInit ==
  /\ \E v \in VSet, f \in FSet, k \in Ranks, withG \in BOOLEAN :
       /\ mesh = Mesh(v, f, IF withG THEN geodesicMatrix(v, f) ELSE << >>, k, "wt")
       /\ mut = [op |-> "init", k0 |-> k, eigen0 |-> << << >>, << >> >>]
  /\ calls = NoCalls
  /\ res = NoResult
  /\ resInfo = NoInfo
  /\ ops = 0

(* --------------------------- Mesh actions ------------------------------ *)
Capped(c) == \A p \in DOMAIN c : c[p] <= MaxCalls

\* a read of one derived property of the source mesh; the value read is the
\* field of s.m
Read(s) ==
  /\ Capped(s.c)
  /\ mesh' = s.m
  /\ calls' = s.c
  /\ UNCHANGED <<mut, res, resInfo, ops, filterVars, auxVars>>

Read_l == Read(Mesh_l([m |-> mesh, c |-> calls]))

Read_mass == Read(Mesh_mass([m |-> mesh, c |-> calls]))

Read_normals == Read(Mesh_normals([m |-> mesh, c |-> calls]))

Read_eigen == Read(Mesh_eigen([m |-> mesh, c |-> calls]))

Read_g == Read(Mesh_g([m |-> mesh, c |-> calls]))

\* a change of v, f or k of the source mesh to m2 by operation name
Mutate(name, m2) ==
  /\ ops < MaxOps
  /\ ops' = ops + 1
  /\ mut' = [op |-> name, k0 |-> mesh.k, eigen0 |-> mesh.eigen]
  /\ mesh' = m2
  /\ calls' = NoCalls
  /\ UNCHANGED <<res, resInfo, filterVars, auxVars>>

Set_v == \E v \in VSet : v # mesh.v /\ Mutate("set_v", Mesh_set_v(mesh, v))

Set_f == \E f \in FSet : f # mesh.f /\ Mutate("set_f", Mesh_set_f(mesh, f))

Set_k == \E k \in Ranks : Mutate("set_k", Mesh_set_k(mesh, k))

\* mesh.scalars[fn] = array, through the scalars getter
AddScalar ==
  \E fn \in FieldNames \ DOMAIN mesh.scalars :
    /\ mesh' = [mesh EXCEPT !.scalars =
                  [x \in DOMAIN mesh.scalars \cup {fn} |->
                     IF x = fn THEN VertexLabels(mesh) ELSE mesh.scalars[x]]]
    /\ UNCHANGED <<calls, mut, res, resInfo, ops, filterVars, auxVars>>

\* a resolution-changing call: it returns (out.res, idx) or raises
Resample(name, idx, out, raised) ==
  /\ ops < MaxOps
  /\ ops' = ops + 1
  /\ Capped(out.src.c)
  /\ mesh' = out.src.m
  /\ calls' = out.src.c
  /\ res' = IF raised THEN NoResult ELSE out.res
  /\ resInfo' = [op |-> name, idx |-> IF raised THEN << >> ELSE idx,
                 raised |-> raised, v0 |-> mesh.v, f0 |-> mesh.f, g0 |-> mesh.g,
                 names0 |-> DOMAIN mesh.scalars, gcalls |-> 0, gread |-> FALSE]
  /\ UNCHANGED <<mut, filterVars, auxVars>>

GetItem ==
  \E idx \in IdxSet :
    Resample("getitem", idx, Mesh_getitem([m |-> mesh, c |-> calls], idx), FALSE)

Decimate ==
  \E idx \in vedo_decimate_idx(mesh.v, N(mesh) - 1) :
    Resample("decimate", idx, Mesh_decimate([m |-> mesh, c |-> calls], idx), FALSE)

\* idx of the last subdivision maps the new vertices to those before it;
\* without a subdivision the return statement raises UnboundLocalError
Upsample ==
  \E target \in 1..MaxTarget :
    LET out == Mesh_upsample([m |-> mesh, c |-> calls], target)
    IN  Resample("upsample", vedo_subdivide_idx(mesh.v), out, ~out.bound)

\* a read of geodesicMatrix on the returned mesh; the value read is res'.g
ReadRes_g ==
  /\ resInfo.op # "none" /\ ~resInfo.raised
  /\ res.g # << >> \/ res.f # << >>
  /\ LET s == Mesh_g([m |-> res, c |-> NoCalls])
     IN  /\ resInfo.gcalls + s.c.g <= MaxCalls
         /\ res' = s.m
         /\ resInfo' = [resInfo EXCEPT !.gcalls = @ + s.c.g, !.gread = TRUE]
  /\ UNCHANGED <<mesh, calls, mut, ops, filterVars, auxVars>>

\* reads and setters of one Mesh
CacheNext ==
  \/ Read_l \/ Read_mass \/ Read_normals \/ Read_eigen \/ Read_g
  \/ Set_v \/ Set_f \/ Set_k

\* resolution-changing calls on one Mesh and reads of what they return
ResampleNext ==
  \/ AddScalar \/ Read_g
  \/ GetItem \/ Decimate \/ Upsample \/ ReadRes_g

(* ------------------- product manifold filter ------------------------- *)
\* Floats are fixed-point numbers: the integer n stands for n / 2^FloatBits
\* (n / 4^FloatBits for a product of two).  Correspondence indices are
\* 0-based as in numpy.  sigma and gamma are fractions [num, den].
RECURSIVE Pow2(_)
Pow2(n) == IF n = 0 THEN 1 ELSE 2 * Pow2(n - 1)

One == Pow2(FloatBits)

\* gaussian_kernel on one entry: exp(-0.5 * (x / sigma)^2) with base 2 for
\* e and the exponent rounded down; 0 when the result underflows
gaussian_kernel(x, sigma) ==
  LET q == (x * x * sigma.den * sigma.den) \div (2 * sigma.num * sigma.num)
  IN  IF q > FloatBits THEN 0 ELSE One \div Pow2(q)

\* gaussian_kernel on a matrix
gaussian_kernel_matrix(g, sigma) ==
  Array([p \in 1..Len(g) |->
           Array([q \in 1..Len(g[p]) |-> gaussian_kernel(g[p][q], sigma)])])

\* numpy accepts the index a on an axis of length n
IndexOK(a, n) == -n <= a /\ a < n

\* the entry of row at the numpy index a; a negative index counts from the end
At(row, a) == IF a >= 0 THEN row[a + 1] ELSE row[Len(row) + a + 1]

RECURSIVE Dot(_, _, _)
\* the dot product of the first n entries of the rows a and b
Dot(a, b, n) == IF n = 0 THEN 0 ELSE Dot(a, b, n - 1) + a[n] * b[n]

MaxOf(S) == CHOOSE x \in S : \A y \in S : y <= x

\* a division of floats num / den; 0 / 0 is nan
Quot(num, den) == <<num, den>>

IsNaN(x) == x[2] = 0

\* the product and the rescaling of product_manifold_kernel, ix and iy valid
KernelMatrix(gx, gy, ix, iy, sigma) ==
  LET Kx == gaussian_kernel_matrix(gx, sigma)
      Ky == gaussian_kernel_matrix(gy, sigma)
      K  == Array([p \in 1..Len(gx) |->
                     Array([q \in 1..Len(gy) |->
                              Dot([t \in 1..Len(ix) |-> At(Kx[p], ix[t])],
                                  [t \in 1..Len(iy) |-> At(Ky[q], iy[t])],
                                  Len(ix))])])
      mx == MaxOf({K[p][q] : p \in 1..Len(gx), q \in 1..Len(gy)})
  IN  Array([p \in 1..Len(gx) |->
               Array([q \in 1..Len(gy) |-> Quot(K[p][q], mx)])])

\* product_manifold_kernel: [err, K]; Kx[:, ix] and Ky[:, iy] raise IndexError
\* on an index out of bounds, dot raises ValueError when ix and iy differ in
\* length
product_manifold_kernel(gx, gy, ix, iy, sigma) ==
  IF \E t \in DOMAIN ix : ~IndexOK(ix[t], Len(gx))
  THEN [err |-> "IndexError", K |-> << >>]
  ELSE IF \E t \in DOMAIN iy : ~IndexOK(iy[t], Len(gy))
  THEN [err |-> "IndexError", K |-> << >>]
  ELSE IF Len(ix) # Len(iy)
  THEN [err |-> "ValueError", K |-> << >>]
  ELSE [err |-> "none", K |-> KernelMatrix(gx, gy, ix, iy, sigma)]

\* numpy argmax of a sequence of floats that share one denominator: the
\* 0-based position of the first largest entry (position 0 when all are nan)
ArgMax(xs) ==
  (CHOOSE t \in 1..Len(xs) :
     /\ \A u \in 1..Len(xs) : xs[u][1] <= xs[t][1]
     /\ \A u \in 1..(t - 1) : xs[u][1] < xs[t][1]) - 1

Column(P, q) == [p \in 1..Len(P) |-> P[p][q]]

\* assignment strategies handed to the filter
Functors == {"argmax_rows", "argmax_cols", "ragged", "out_of_range"}

\* assignment_functor(P): the correspondence [i, j] a strategy returns.
\* argmax_rows matches every row to its best column, argmax_cols every
\* column to its best row; ragged drops the last entry of j; out_of_range
\* matches the last row to the column after the last one
assignment_functor(functor, P) ==
  LET rows == Array([p \in 1..Len(P) |-> p - 1])
      best == Array([p \in 1..Len(P) |-> ArgMax(P[p])])
      cols == Array([q \in 1..Len(P[1]) |-> q - 1])
      bestRow == Array([q \in 1..Len(P[1]) |-> ArgMax(Column(P, q))])
  IN  CASE functor = "argmax_rows"  -> [i |-> rows, j |-> best]
        [] functor = "argmax_cols"  -> [i |-> bestRow, j |-> cols]
        [] functor = "ragged"       -> [i |-> rows, j |-> SubSeq(best, 1, Len(best) - 1)]
        [] functor = "out_of_range" ->
             [i |-> rows, j |-> [best EXCEPT ![Len(best)] = Len(P[1])]]

\* a bandwidth that is never annealed
Times_keeps_sigma(sigma, gamma) == sigma

\* sigma * gamma
Times(sigma, gamma) ==
  [num |-> sigma.num * gamma.num, den |-> sigma.den * gamma.den]

\* a loop that runs one round more than asked for
range_has_next_inclusive(round, iterations) == round <= iterations

\* for _ in range(iterations): another round runs after `round` rounds
range_has_next(round, iterations) == round < iterations

\* a loop body that never assigns the strategy's output to i, j
Round_keeps_input(functor, gx, gy, gamma, st) ==
  LET k   == product_manifold_kernel(gx, gy, st.i, st.j, st.sigma)
      out == assignment_functor(functor, k.K)
  IN  IF k.err # "none"
      THEN [st EXCEPT !.err = k.err]
      ELSE [st EXCEPT !.sigma = Times(st.sigma, gamma),
                      !.log = Append(st.log, [i |-> st.i, j |-> st.j,
                                              sigma |-> st.sigma,
                                              P |-> k.K, out |-> out])]

\* the body of the loop of product_manifold_filter_correspondence on the run
\* st = [i, j, sigma, log, err]; log gets, per round, the correspondence and
\* bandwidth the kernel was built from, the kernel handed to the strategy and
\* the correspondence it returned
Round(functor, gx, gy, gamma, st) ==
  LET k   == product_manifold_kernel(gx, gy, st.i, st.j, st.sigma)
      out == assignment_functor(functor, k.K)
  IN  IF k.err # "none"
      THEN [st EXCEPT !.err = k.err]
      ELSE [i |-> out.i, j |-> out.j,
            sigma |-> Times(st.sigma, gamma),
            log |-> Append(st.log, [i |-> st.i, j |-> st.j, sigma |-> st.sigma,
                                    P |-> k.K, out |-> out]),
            err |-> "none"]

\* the run when product_manifold_filter_correspondence is entered
Enter(i, j, sigma) ==
  [i |-> i, j |-> j, sigma |-> sigma, log |-> << >>, err |-> "none"]

RECURSIVE Rounds(_, _, _, _, _, _, _)
\* the run after the rounds round + 1 .. iterations, or up to a raise
Rounds(functor, gx, gy, gamma, st, round, iterations) ==
  IF st.err # "none" \/ ~range_has_next(round, iterations) THEN st
  ELSE Rounds(functor, gx, gy, gamma, Round(functor, gx, gy, gamma, st),
              round + 1, iterations)

\* what a finished run hands to the caller: the pair (i, j) or the exception
Outcome(st) == IF st.err # "none" THEN st.err ELSE <<st.i, st.j>>

\* product_manifold_filter_correspondence as one function of its arguments
product_manifold_filter_correspondence(functor, gx, gy, i, j, sigma, gamma, iterations) ==
  Rounds(functor, gx, gy, gamma, Enter(i, j, sigma), 0, iterations)

\* a seed that ignores P and matches every vertex to the one of its index
seed_identity(functor, P) ==
  [i |-> Array([p \in 1..Len(P) |-> p - 1]), j |-> Array([p \in 1..Len(P) |-> p - 1])]

\* the first statement of product_manifold_filter_assignment
seed(functor, P) == assignment_functor(functor, P)

\* a refinement call has its arguments
FilterGSet == {geodesicMatrix(v, Strip(NVerts)) : v \in VSet}

Sigmas == {[num |-> 1, den |-> 1], [num |-> 2, den |-> 1]}

Gammas == {[num |-> 1, den |-> 1], [num |-> 1, den |-> 2]}

\* input correspondences: none, one pair, the two end vertices, all vertices
CorrSet ==
  { << << >>, << >> >>, << <<0>>, <<0>> >>,
    << <<0, NVerts - 1>>, <<0, NVerts - 1>> >>,
    << [t \in 1..NVerts |-> t - 1], [t \in 1..NVerts |-> t - 1] >> }

\* input soft correspondence matrices: the diagonal and the anti-diagonal
PSet ==
  { Array([p \in 1..NVerts |->
             Array([q \in 1..NVerts |-> Quot(IF q = p THEN 2 ELSE 1, 1)])]),
    Array([p \in 1..NVerts |->
             Array([q \in 1..NVerts |->
                      Quot(IF q = NVerts + 1 - p THEN 2 ELSE 1, 1)])]) }

NoRun == Enter(<< >>, << >>, [num |-> 1, den |-> 1])

FilterInit ==
  /\ \E functor \in Functors, gx \in FilterGSet, gy \in FilterGSet,
        sigma \in Sigmas, gamma \in Gammas, iterations \in 0..MaxIter :
       \/ \E c \in CorrSet :
            /\ fin = [entry |-> "correspondence", functor |-> functor,
                      gx |-> gx, gy |-> gy, i |-> c[1], j |-> c[2], P |-> << >>,
                      sigma |-> sigma, gamma |-> gamma, iterations |-> iterations]
            /\ frun = Enter(c[1], c[2], sigma)
            /\ fpc = "loop"
       \/ \E P \in PSet :
            /\ fin = [entry |-> "assignment", functor |-> functor,
                      gx |-> gx, gy |-> gy, i |-> << >>, j |-> << >>, P |-> P,
                      sigma |-> sigma, gamma |-> gamma, iterations |-> iterations]
            /\ frun = NoRun
            /\ fpc = "seed"
  /\ fseed = << >>
  /\ fret = << >>

\* product_manifold_filter_assignment: i, j = assignment_functor(P), then the
\* call of product_manifold_filter_correspondence
Seed ==
  /\ fpc = "seed"
  /\ LET c == seed(fin.functor, fin.P)
     IN  frun' = Enter(c.i, c.j, fin.sigma)
  /\ fseed' = Append(fseed, fin.P)
  /\ fpc' = "loop"
  /\ UNCHANGED <<fin, fret, meshVars, auxVars>>

\* one round of the loop; a raise ends the call
LoopStep ==
  /\ fpc = "loop"
  /\ range_has_next(Len(frun.log), fin.iterations)
  /\ frun' = Round(fin.functor, fin.gx, fin.gy, fin.gamma, frun)
  /\ IF frun'.err # "none"
     THEN fpc' = "error" /\ fret' = frun'.err
     ELSE fpc' = "loop" /\ fret' = fret
  /\ UNCHANGED <<fin, fseed, meshVars, auxVars>>

\* return i, j
Return ==
  /\ fpc = "loop"
  /\ ~range_has_next(Len(frun.log), fin.iterations)
  /\ fpc' = "done"
  /\ fret' = <<frun.i, frun.j>>
  /\ UNCHANGED <<fin, frun, fseed, meshVars, auxVars>>

FilterNext == Seed \/ LoopStep \/ Return

(* -------------------------- specifications ---------------------------- *)
vars == <<mesh, calls, mut, res, resInfo, ops, fin, frun, fseed, fpc, fret,
          exc, thr, gsup>>

NoExc == [op |-> "none", err |-> "none"]

NoThreads == [prop |-> "none", pc |-> <<"idle", "idle">>, got |-> << << >>, << >> >>]

\* no call that raised, no thread, the matrix the constructor was given
AuxInit == exc = NoExc /\ thr = NoThreads /\ gsup = mesh.g

\* no refinement call
FilterIdle ==
  /\ fin = << >> /\ frun = NoRun /\ fseed = << >> /\ fpc = "idle" /\ fret = << >>

\* one Mesh nothing is done with
MeshIdle ==
  /\ mesh = Mesh(CHOOSE v \in VSet : TRUE, Strip(NVerts), << >>, MaxRank, "wt")
  /\ mut = [op |-> "init", k0 |-> MaxRank, eigen0 |-> << << >>, << >> >>]
  /\ calls = NoCalls /\ res = NoResult /\ resInfo = NoInfo /\ ops = 0

Init == MeshInit /\ FilterIdle /\ AuxInit

Next == CacheNext

\* reads and setters of one Mesh
Spec == Init /\ [][Next]_vars

\* resolution-changing calls on one Mesh
ResampleSpec == Init /\ [][ResampleNext]_vars

\* one refinement call
FilterStart == FilterInit /\ MeshIdle /\ AuxInit

FilterSpec == FilterStart /\ [][FilterNext]_vars

(* ------------------------ claims on the Mesh --------------------------- *)
CacheNames == {"l", "mass", "g", "normals"}

EmptyEigen == << << >>, << >> >>

AllCachesEmpty(m) ==
  /\ \A p \in CacheNames : m[p] = << >>
  /\ m.eigen = EmptyEigen

\* C1 (as claimed): right after new vertices or new faces are assigned through
\* the v or f setter, and before any read computes anything, the caches of
\* laplacian, massMatrix, eigenbasis, geodesicMatrix and normals are all empty.
C1_SettersEmptyCaches ==
  (mut.op \in {"set_v", "set_f"} /\ calls = NoCalls) => AllCachesEmpty(mesh)

\* the value each computation yields on the mesh as it is now
Derived(m, p) ==
  CASE p = "l"       -> cotmatrix(m.v, m.f)
    [] p = "mass"    -> massmatrix(m.v, m.f)
    [] p = "normals" -> per_vertex_normals(m.v, m.f)
    [] p = "g"       -> geodesicMatrix(m.v, m.f)
    [] p = "eigen"   -> laplace_eigen_decomposition(m.l, m.mass, m.k)

\* C2 (as claimed): while v, f and k stay as they are, no computation of a
\* derived property is invoked more than once.
C2_ComputedOnceAnyRank ==
  \A p \in DOMAIN calls : calls[p] <= 1

\* C2 (amended): while v, f and k stay as they are, laplacian, massMatrix,
\* geodesicMatrix and normals are each computed at most once, and so is the
\* eigenbasis when the rank is at least 1; a property computed in that time
\* is still cached with the value computed, so later reads return it.
C2_ComputedOnce ==
  /\ \A p \in CacheNames :
       /\ calls[p] <= 1
       /\ calls[p] = 1 => mesh[p] = Derived(mesh, p)
  /\ mesh.k >= 1 =>
       /\ calls.eigen <= 1
       /\ calls.eigen = 1 => mesh.eigen = Derived(mesh, "eigen")

\* every derived property of a mesh of rank at least 1 has been computed once
C2_Witness ==
  /\ mesh.k >= 1
  /\ \A p \in DOMAIN calls : calls[p] = 1
  /\ ~AllCachesEmpty(mesh)

EigenCached(e) == e[1] # << >> /\ e[2] # << >>

\* the first k eigenvalues and the first k eigenvector columns of e
FirstPairs(e, k) == <<SubSeq(e[1], 1, k), SubSeq(e[2], 1, k)>>

\* what holds after a rank larger than the current one is assigned: the cache
\* is empty until the next read, which solves once for mesh.k pairs
AfterGrowth ==
  \/ mesh.eigen = EmptyEigen /\ calls.eigen = 0
  \/ /\ calls.eigen = 1
     /\ mesh.eigen = Derived(mesh, "eigen")
     /\ Len(mesh.eigen[1]) = mesh.k /\ Len(mesh.eigen[2]) = mesh.k

\* C3 (as claimed): after rank k' is assigned to a mesh with a cached
\* eigenbasis, for k' not above the old rank the cache holds the first k'
\* pairs of the old cache and no eigensolve is invoked, by the setter or by
\* later reads; for a larger k' the cache is empty and the next read solves
\* for k' pairs.
C3_RankSetter ==
  (mut.op = "set_k" /\ EigenCached(mut.eigen0)) =>
    IF mesh.k <= mut.k0
    THEN mesh.eigen = FirstPairs(mut.eigen0, mesh.k) /\ calls.eigen = 0
    ELSE AfterGrowth

\* C3 (amended): the same for 1 <= k' <= old rank and for k' above the old
\* rank; for k' = 0 the setter leaves an empty cache.
C3_RankSetterPositive ==
  (mut.op = "set_k" /\ EigenCached(mut.eigen0)) =>
    IF mesh.k = 0 THEN mesh.eigen = EmptyEigen
    ELSE IF mesh.k <= mut.k0
    THEN mesh.eigen = FirstPairs(mut.eigen0, mesh.k) /\ calls.eigen = 0
    ELSE AfterGrowth

\* a cached eigenbasis cut to a smaller positive rank
C3_Witness ==
  /\ mut.op = "set_k" /\ EigenCached(mut.eigen0)
  /\ 1 <= mesh.k /\ mesh.k < mut.k0
  /\ Len(mesh.eigen[1]) = mesh.k /\ Len(mut.eigen0[1]) = mut.k0

\* the geodesic matrix a read on the source would have returned at the call
FullG0 ==
  IF resInfo.g0 = << >> THEN geodesicMatrix(resInfo.v0, resInfo.f0) ELSE resInfo.g0

\* C4 (as claimed): geodesicMatrix read on a decimated mesh is the source's
\* full geodesic matrix restricted to idx, cached at the call or not.
C4_DecimateMatchesFullG ==
  (resInfo.op = "decimate" /\ resInfo.gread) =>
    res.g = Restrict(FullG0, resInfo.idx)

\* C4 (amended): when the source's geodesic matrix was cached at the call,
\* the decimated mesh holds that matrix restricted to idx, and reads of its
\* geodesicMatrix return it without any geodesic computation.
C4_DecimateTransportsCachedG ==
  (resInfo.op = "decimate" /\ resInfo.g0 # << >>) =>
    /\ res.g = Restrict(resInfo.g0, resInfo.idx)
    /\ resInfo.gcalls = 0

\* geodesicMatrix read on the decimation of a mesh with a cached matrix
C4_Witness ==
  /\ resInfo.op = "decimate" /\ resInfo.g0 # << >> /\ resInfo.gread
  /\ Len(res.g) = Len(resInfo.idx) /\ Len(res.g) < Len(resInfo.g0)

\* C5 (as claimed): the mesh returned by indexing, decimate or upsample has
\* the field names of the source, each field with one value per vertex.
C5_ScalarsCarried ==
  (resInfo.op \in {"getitem", "decimate", "upsample"} /\ ~resInfo.raised) =>
    /\ DOMAIN res.scalars = resInfo.names0
    /\ \A fn \in DOMAIN res.scalars : Len(res.scalars[fn]) = N(res)

(* ----------------------- claims on the filter -------------------------- *)
\* the correspondence the loop starts from
EntryCorr ==
  IF fin.entry = "correspondence" THEN [i |-> fin.i, j |-> fin.j]
  ELSE assignment_functor(fin.functor, fin.P)

\* C6: product_manifold_filter_correspondence with iterations = 0 ends by
\* returning its arguments (i, j) as they are, whatever gx, gy, sigma and
\* gamma, and the strategy is never invoked.
C6_ZeroRoundsIdentity ==
  (fin.entry = "correspondence" /\ fin.iterations = 0) =>
    /\ fpc \in {"loop", "done"}
    /\ frun.log = << >> /\ fseed = << >>
    /\ fpc = "done" => fret = <<fin.i, fin.j>>

\* a zero-round call on a non-empty correspondence has returned
C6_Witness ==
  /\ fin.entry = "correspondence" /\ fin.iterations = 0
  /\ fpc = "done" /\ fin.i # << >> /\ fret = <<fin.i, fin.j>>

\* C7: product_manifold_filter_assignment ends as
\* product_manifold_filter_correspondence does on (i0, j0) = strategy(P): the
\* same result or the same exception after the same rounds; the strategy is
\* invoked first on P and then once per round, n + 1 times when the call
\* returns, and for n = 0 the call returns strategy(P).
C7_AssignmentDelegates ==
  (fin.entry = "assignment" /\ fpc \in {"done", "error"}) =>
    LET c   == assignment_functor(fin.functor, fin.P)
        ref == product_manifold_filter_correspondence(
                 fin.functor, fin.gx, fin.gy, c.i, c.j,
                 fin.sigma, fin.gamma, fin.iterations)
    IN  /\ fseed = <<fin.P>>
        /\ frun.log = ref.log
        /\ (fpc = "error") = (ref.err # "none")
        /\ fpc = "error" => fret = ref.err
        /\ fpc = "done" =>
             /\ fret = <<ref.i, ref.j>>
             /\ Len(fseed) + Len(frun.log) = fin.iterations + 1
             /\ fin.iterations = 0 => fret = <<c.i, c.j>>

\* a call on a matrix has returned after at least one round
C7_Witness ==
  /\ fin.entry = "assignment" /\ fpc = "done"
  /\ fin.iterations >= 1 /\ Len(frun.log) = fin.iterations
  /\ fseed = <<fin.P>>

\* C8: the rounds run in order: the kernel of round 1 is built from the
\* correspondence the loop starts from, the kernel of round r > 1 from the
\* strategy's output of round r - 1, the strategy is invoked once per round on
\* that round's kernel, n times when the call returns, and the call returns
\* the strategy's output of round n.
C8_RoundsInOrder ==
  /\ \A r \in 1..Len(frun.log) :
       LET e    == frun.log[r]
           from == IF r = 1 THEN EntryCorr ELSE frun.log[r - 1].out
       IN  /\ e.i = from.i /\ e.j = from.j
           /\ e.P = product_manifold_kernel(fin.gx, fin.gy, e.i, e.j, e.sigma).K
           /\ e.out = assignment_functor(fin.functor, e.P)
  /\ fpc = "done" =>
       /\ Len(frun.log) = fin.iterations
       /\ fin.iterations >= 1 =>
            fret = <<frun.log[fin.iterations].out.i, frun.log[fin.iterations].out.j>>

\* a call of two rounds or more has returned, and its second kernel was built
\* from another correspondence than the first
C8_Witness ==
  /\ fpc = "done" /\ fin.iterations >= 2 /\ Len(frun.log) = fin.iterations
  /\ frun.log[2].i # frun.log[1].i

\* the entries of a matrix
Entries(P) == {P[p][q] : p \in 1..Len(P), q \in 1..Len(P[1])}

\* C9 (as claimed): every entry of every kernel product_manifold_kernel
\* returns lies in (0, 1], and its largest entry is exactly 1.
C9_KernelBounded ==
  \A r \in 1..Len(frun.log) :
    /\ \A x \in Entries(frun.log[r].P) : ~IsNaN(x) /\ 0 < x[1] /\ x[1] <= x[2]
    /\ \E x \in Entries(frun.log[r].P) : ~IsNaN(x) /\ x[1] = x[2]

\* a correspondence of equally long sequences of indices of gx and gy
ValidCorr(c) ==
  /\ Len(c.i) = Len(c.j)
  /\ \A t \in DOMAIN c.i : 0 <= c.i[t] /\ c.i[t] < Len(fin.gx)
  /\ \A t \in DOMAIN c.j : 0 <= c.j[t] /\ c.j[t] < Len(fin.gy)

\* C10 (as claimed): a call in which the strategy returned sequences of
\* different lengths or an index out of range, before the loop or in any
\* round, does not return: it ends with an error.
C10_InvalidOutputRaises ==
  fpc = "done" =>
    /\ \A r \in 1..Len(frun.log) : ValidCorr(frun.log[r].out)
    /\ fin.entry = "assignment" => ValidCorr(EntryCorr)

(* ------------------------ reads that can raise ------------------------- *)
Computations == {"l", "mass", "normals", "eigen", "g"}

\* a getter that returned
Returned(st) == [m |-> st.m, c |-> st.c, err |-> "none"]

\* an assignment that stores what the computation had built when it raised
Raise_stores_partial(st, comp) ==
  [m |-> [st.m EXCEPT ![comp] = IF comp = "eigen" THEN << <<"partial">>, << >> >>
                                ELSE <<"partial">>],
   c |-> [st.c EXCEPT ![comp] = @ + 1], err |-> comp]

\* the assignment self.__x = computation(...) of a getter when the
\* computation raises: it was invoked, nothing is assigned, the exception
\* leaves the getter
Raise(st, comp) ==
  [m |-> st.m, c |-> [st.c EXCEPT ![comp] = @ + 1], err |-> comp]

\* The getters when the computation `bad` raises ("none": no computation does)

Try_l(st, bad) ==
  IF st.m.l = << >> /\ bad = "l" THEN Raise(st, "l") ELSE Returned(Mesh_l(st))

Try_mass(st, bad) ==
  IF st.m.mass = << >> /\ bad = "mass" THEN Raise(st, "mass")
  ELSE Returned(Mesh_mass(st))

Try_normals(st, bad) ==
  IF st.m.normals = << >> /\ bad = "normals" THEN Raise(st, "normals")
  ELSE Returned(Mesh_normals(st))

Try_g(st, bad) ==
  IF st.m.g = << >> /\ bad = "g" THEN Raise(st, "g") ELSE Returned(Mesh_g(st))

\* self.l and self.mass are read, and cached, before the eigensolve
Try_eigen(st, bad) ==
  IF \E n \in 1..2 : st.m.eigen[n] = << >>
  THEN LET s1 == Try_l(st, bad)
           s2 == Try_mass([m |-> s1.m, c |-> s1.c], bad)
       IN  IF s1.err # "none" THEN s1
           ELSE IF s2.err # "none" THEN s2
           ELSE IF bad = "eigen" THEN Raise([m |-> s2.m, c |-> s2.c], "eigen")
           ELSE Returned(Mesh_eigen([m |-> s2.m, c |-> s2.c]))
  ELSE Returned(st)

\* a read of the derived property name that returned or raised
TryRead(name, s) ==
  /\ Capped(s.c)
  /\ mesh' = s.m
  /\ calls' = s.c
  /\ exc' = [op |-> name, err |-> s.err]
  /\ UNCHANGED <<mut, res, resInfo, ops, filterVars, thr, gsup>>

TryRead_l ==
  \E bad \in {"none", "l"} : TryRead("l", Try_l([m |-> mesh, c |-> calls], bad))

TryRead_mass ==
  \E bad \in {"none", "mass"} :
    TryRead("mass", Try_mass([m |-> mesh, c |-> calls], bad))

TryRead_normals ==
  \E bad \in {"none", "normals"} :
    TryRead("normals", Try_normals([m |-> mesh, c |-> calls], bad))

TryRead_eigen ==
  \E bad \in {"none", "l", "mass", "eigen"} :
    TryRead("eigen", Try_eigen([m |-> mesh, c |-> calls], bad))

TryRead_g ==
  \E bad \in {"none", "g"} : TryRead("g", Try_g([m |-> mesh, c |-> calls], bad))

FailNext ==
  \/ TryRead_l \/ TryRead_mass \/ TryRead_normals \/ TryRead_eigen \/ TryRead_g

\* a Mesh as constructed on one surface, of any rank, with or without a
\* geodesic matrix
FailInit ==
  /\ \E k \in Ranks, withG \in BOOLEAN :
       LET v == CHOOSE x \in VSet : TRUE
           f == Strip(NVerts)
       IN  /\ mesh = Mesh(v, f, IF withG THEN geodesicMatrix(v, f) ELSE << >>, k, "wt")
           /\ mut = [op |-> "init", k0 |-> k, eigen0 |-> << << >>, << >> >>]
  /\ calls = NoCalls
  /\ res = NoResult
  /\ resInfo = NoInfo
  /\ ops = 0

FailStart == FailInit /\ FilterIdle /\ AuxInit

\* reads of one Mesh whose computations can raise
FailSpec == FailStart /\ [][FailNext]_vars

\* C11: a read in which a computation raises leaves the cache of the property
\* read, and the cache of the computation that raised, exactly as they were
\* before the read; the next read of the same property invokes the
\* computation that raised again.
C11_FailedReadKeepsCache ==
  [][ /\ exc'.err # "none" =>
           /\ mesh'[exc'.op] = mesh[exc'.op]
           /\ mesh'[exc'.err] = mesh[exc'.err]
      /\ (exc.err # "none" /\ exc'.op = exc.op) =>
           calls'[exc.err] = calls[exc.err] + 1 ]_vars

\* the eigensolve of a mesh of rank 1 or more raised in a second attempt,
\* with laplacian and massMatrix cached by the read and no eigenbasis stored
C11_Witness ==
  /\ exc.op = "eigen" /\ exc.err = "eigen"
  /\ mesh.k >= 1 /\ calls.eigen = 2
  /\ mesh.eigen = EmptyEigen /\ mesh.l # << >> /\ mesh.mass # << >>

(* ------------------- two threads reading one Mesh ---------------------- *)
Threads == 1..2

\* the getter of the derived property p
Getter(st, p) ==
  CASE p = "l"       -> Mesh_l(st)
    [] p = "mass"    -> Mesh_mass(st)
    [] p = "normals" -> Mesh_normals(st)
    [] p = "eigen"   -> Mesh_eigen(st)
    [] p = "g"       -> Mesh_g(st)

\* the test of the getter of p: self.__x.size == 0, for either array of eigen
CacheEmpty(m, p) ==
  IF p = "eigen" THEN \E n \in 1..2 : m.eigen[n] = << >> ELSE m[p] = << >>

\* the branch of the getter of p taken after its test found the cache empty:
\* the computation and the assignment, whatever the cache holds by now
ComputeAndStore(st, p) ==
  Getter([m |-> [st.m EXCEPT ![p] = IF p = "eigen" THEN << << >>, << >> >>
                                    ELSE << >>],
          c |-> st.c], p)

\* two threads enter the getter of one derived property of a fresh Mesh
ThreadStart ==
  /\ MeshInit /\ FilterIdle
  /\ exc = NoExc /\ gsup = mesh.g
  /\ \E p \in Computations :
       thr = [prop |-> p, pc |-> <<"test", "test">>, got |-> << << >>, << >> >>]

\* thread t evaluates the test of the getter; with a cached value it returns
\* it.  Nothing in the getter stops the other thread from running between
\* this test and the assignment.
T_test(t) ==
  /\ thr.pc[t] = "test"
  /\ thr' = IF CacheEmpty(mesh, thr.prop)
            THEN [thr EXCEPT !.pc[t] = "compute"]
            ELSE [thr EXCEPT !.pc[t] = "done", !.got[t] = mesh[thr.prop]]
  /\ UNCHANGED <<meshVars, filterVars, exc, gsup>>

\* thread t computes, assigns the cache and returns it
T_store(t) ==
  /\ thr.pc[t] = "compute"
  /\ LET s == ComputeAndStore([m |-> mesh, c |-> calls], thr.prop)
     IN  /\ mesh' = s.m
         /\ calls' = s.c
         /\ thr' = [thr EXCEPT !.pc[t] = "done", !.got[t] = s.m[thr.prop]]
  /\ UNCHANGED <<mut, res, resInfo, ops, filterVars, exc, gsup>>

ThreadNext == \E t \in Threads : T_test(t) \/ T_store(t)

\* one Mesh read by two threads
ThreadSpec == ThreadStart /\ [][ThreadNext]_vars

\* C12 (as claimed): when two threads read the same derived property of one
\* Mesh (of rank 1 or more when it is the eigenbasis), its computation runs
\* at most once under every interleaving, and both readers get the same value.
C12_ThreadsComputeOnce ==
  (thr.prop # "none" /\ (thr.prop = "eigen" => mesh.k >= 1)) =>
    /\ calls[thr.prop] <= 1
    /\ (thr.pc[1] = "done" /\ thr.pc[2] = "done") => thr.got[1] = thr.got[2]

(* ------------------ geodesic matrix supplied from outside -------------- *)
\* Mesh.g setter
Mesh_set_g(m, g) == [m EXCEPT !.g = g]

\* matrices a caller supplies: the geodesics of the surfaces of the model,
\* those of other vertices or faces than the mesh has among them
GSet == {geodesicMatrix(v, f) : v \in VSet, f \in FSet}

\* mesh.g = g
Supply_g ==
  \E g \in GSet :
    /\ g # mesh.g
    /\ mesh' = Mesh_set_g(mesh, g)
    /\ gsup' = g
    /\ calls' = NoCalls
    /\ mut' = [op |-> "set_g", k0 |-> mesh.k, eigen0 |-> mesh.eigen]
    /\ exc' = NoExc
    /\ UNCHANGED <<res, resInfo, ops, filterVars, thr>>

SupplyNext == Supply_g \/ TryRead_g \/ Set_v \/ Set_f \/ Set_k

\* one Mesh whose geodesic matrix is supplied and read
SupplySpec == Init /\ [][SupplyNext]_vars

\* C13: once a geodesic matrix was supplied, to the constructor or through
\* the g setter, the cache holds that matrix, so every read of geodesicMatrix
\* returns it, and no geodesic computation is invoked, also after v, f or k
\* are assigned.
C13_SuppliedGKept ==
  gsup # << >> => (mesh.g = gsup /\ calls.g = 0)

\* geodesicMatrix was read and returned after a matrix was supplied through
\* the setter that is not the one the computation yields for the mesh
C13_Witness ==
  /\ mut.op = "set_g" /\ gsup # << >>
  /\ exc = [op |-> "g", err |-> "none"]
  /\ mesh.g = gsup /\ gsup # geodesicMatrix(mesh.v, mesh.f)

(* ------------------- frame of the resampling calls --------------------- *)
\* a Mesh as its constructor leaves it, but for the scalar fields copied in
FreshMesh(m) ==
  m = [Mesh(m.v, m.f, m.g, m.k, m.type) EXCEPT !.scalars = m.scalars]

\* C14: every call of indexing, decimate or upsample leaves vertices, faces,
\* rank, type and scalar fields of the source as they were, and what it
\* returns is a Mesh newly constructed with the rank and the type of the
\* source.
C14_ResampleFrame ==
  [][ ops' = ops + 1 =>
        /\ mesh'.v = mesh.v /\ mesh'.f = mesh.f /\ mesh'.k = mesh.k
        /\ mesh'.type = mesh.type /\ mesh'.scalars = mesh.scalars
        /\ ~resInfo'.raised =>
             /\ res'.k = mesh.k /\ res'.type = mesh.type
             /\ FreshMesh(res') ]_vars

\* an indexing of a mesh of rank 1 or more with a scalar field returned a
\* mesh of fewer vertices
C14_Witness ==
  /\ resInfo.op = "getitem" /\ ~resInfo.raised
  /\ mesh.k >= 1 /\ res.k = mesh.k /\ res.type = "wt"
  /\ DOMAIN mesh.scalars # {} /\ mesh.v = resInfo.v0
  /\ N(res) < N(mesh)

(* ------------------------ in-place modifiers --------------------------- *)
\* Floats that are no numbers: Inf also stands for +inf, NaN for nan
NegInf == -Inf

NaN == Inf + 1

Finite(x) == x \notin {NaN, Inf, NegInf}

\* the float division x / d of numpy: no exception for d = 0; the quotient of
\* finite numbers is rounded down
FloatDiv(x, d) ==
  IF x = NaN THEN NaN
  ELSE IF d = 0 THEN (IF x = 0 THEN NaN ELSE IF x > 0 THEN Inf ELSE NegInf)
  ELSE IF ~Finite(x) THEN x
  ELSE x \div d

RECURSIVE SumTo(_, _)
\* v[1] + .. + v[n]
SumTo(v, n) == IF n = 0 THEN 0 ELSE SumTo(v, n - 1) + v[n]

\* the largest distance of two vertices
Extent(v) ==
  CHOOSE d \in {Abs(v[p] - v[q]) : p, q \in DOMAIN v} :
    \A p, q \in DOMAIN v : Abs(v[p] - v[q]) <= d

\* util.area: the surface area; on the one-coordinate surfaces of the model
\* the square of the extent, 0 for a mesh without faces
area(v, f) == IF f = << >> THEN 0 ELSE Extent(v) * Extent(v)

\* np.sqrt, rounded down
sqrt(a) == CHOOSE r \in 0..a : r * r <= a /\ (r + 1) * (r + 1) > a

\* Mesh.scale: self.__v *= factor
Mesh_scale(m, factor) == [m EXCEPT !.v = [p \in DOMAIN m.v |-> m.v[p] * factor]]

\* Mesh.rotate: self.__v = self.v @ R; R is 1 or -1 on one coordinate
Mesh_rotate(m, R) == [m EXCEPT !.v = [p \in DOMAIN m.v |-> m.v[p] * R]]

\* Mesh.shift: self.__v += [dx, dy, dz]
Mesh_shift(m, dx) == [m EXCEPT !.v = [p \in DOMAIN m.v |-> m.v[p] + dx]]

\* Mesh.centre: self.__v -= np.mean(self.v, axis = 0)
Mesh_centre(m) ==
  LET mean == FloatDiv(SumTo(m.v, N(m)), N(m))
  IN  [m EXCEPT !.v = [p \in DOMAIN m.v |-> m.v[p] - mean]]

\* Mesh.normalise: vertices and the geodesic cache (when it is not empty)
\* are divided in place by the square root of the area, whatever it is
Mesh_normalise(m) ==
  LET norm == sqrt(area(m.v, m.f))
  IN  [m EXCEPT
         !.v = [p \in DOMAIN m.v |-> FloatDiv(m.v[p], norm)],
         !.g = Array([p \in DOMAIN m.g |->
                        Array([q \in DOMAIN m.g[p] |-> FloatDiv(m.g[p][q], norm)])])]

\* vertex arrays: those of VSet and a degenerate one, all vertices at 0
ModVSet == VSet \cup {[p \in 1..NVerts |-> 0]}

\* face arrays: those of FSet and none (a point cloud)
ModFSet == FSet \cup {<< >>}

Factors == 0..2

Rotations == {1, -1}

Shifts == {-1, 1}

ModInit ==
  /\ \E v \in ModVSet, f \in ModFSet, withG \in BOOLEAN :
       mesh = Mesh(v, f, IF withG THEN geodesicMatrix(v, f) ELSE << >>, MaxRank, "wt")
  /\ mut = [op |-> "init", k0 |-> MaxRank, eigen0 |-> << << >>, << >> >>]
  /\ calls = NoCalls
  /\ res = NoResult
  /\ resInfo = NoInfo
  /\ ops = 0

\* an in-place modifier that turns the source mesh into m2 and returns; none
\* of the five has a statement that raises
Modify(name, m2) ==
  /\ ops < MaxOps
  /\ ops' = ops + 1
  /\ mut' = [op |-> name, k0 |-> mesh.k, eigen0 |-> mesh.eigen]
  /\ mesh' = m2
  /\ calls' = NoCalls
  /\ exc' = [op |-> name, err |-> "none"]
  /\ UNCHANGED <<res, resInfo, filterVars, thr, gsup>>

Scale == \E factor \in Factors : Modify("scale", Mesh_scale(mesh, factor))

Rotate == \E R \in Rotations : Modify("rotate", Mesh_rotate(mesh, R))

Shift == \E dx \in Shifts : Modify("shift", Mesh_shift(mesh, dx))

Centre == Modify("centre", Mesh_centre(mesh))

Normalise == Modify("normalise", Mesh_normalise(mesh))

ModifyNext ==
  \/ Read_g \/ Read_mass
  \/ Scale \/ Rotate \/ Shift \/ Centre \/ Normalise

ModifyStart == ModInit /\ FilterIdle /\ AuxInit

\* reads and in-place modifiers of one Mesh
ModifySpec == ModifyStart /\ [][ModifyNext]_vars

Modifiers == {"scale", "rotate", "shift", "centre", "normalise"}

\* C15 (as claimed): right after an in-place modifier that leaves finite
\* vertices, the geodesic cache is empty or holds the geodesics of the
\* modified vertices, and after scale or normalise the massMatrix cache is
\* empty or holds the mass matrix of the modified vertices.
C15_ModifiersKeepCachesRight ==
  (/\ mut.op \in Modifiers /\ calls = NoCalls
   /\ \A p \in DOMAIN mesh.v : Finite(mesh.v[p])) =>
    /\ mesh.g = << >> \/ mesh.g = geodesicMatrix(mesh.v, mesh.f)
    /\ mut.op \in {"scale", "normalise"} =>
         (mesh.mass = << >> \/ mesh.mass = massmatrix(mesh.v, mesh.f))

\* C17 (as claimed): normalise() on a mesh of area zero raises and leaves the
\* vertices and the cached geodesic matrix as they were.
C17_NormaliseZeroAreaRaises ==
  [][ (ops' = ops + 1 /\ mut'.op = "normalise" /\ area(mesh.v, mesh.f) = 0) =>
        /\ exc'.err # "none"
        /\ mesh'.v = mesh.v /\ mesh'.g = mesh.g ]_vars

(* ------------------------ bandwidth schedule --------------------------- *)
RECURSIVE PowFrac(_, _)
\* the fraction x to the power n
PowFrac(x, n) ==
  IF n = 0 THEN [num |-> 1, den |-> 1]
  ELSE [num |-> PowFrac(x, n - 1).num * x.num, den |-> PowFrac(x, n - 1).den * x.den]

\* the fractions a and b are the same number
SameFrac(a, b) == a.num * b.den = b.num * a.den

\* sigma * gamma^(r - 1) for the sigma and gamma of the call
Schedule(r) ==
  LET g == PowFrac(fin.gamma, r - 1)
  IN  [num |-> fin.sigma.num * g.num, den |-> fin.sigma.den * g.den]

\* C16: the kernel of round r is built with the bandwidth
\* sigma * gamma^(r - 1); the first round uses the caller's sigma itself, and
\* with gamma = 1 every round does.
C16_BandwidthSchedule ==
  \A r \in 1..Len(frun.log) :
    LET e == frun.log[r]
    IN  /\ SameFrac(e.sigma, Schedule(r))
        /\ e.P = product_manifold_kernel(fin.gx, fin.gy, e.i, e.j, Schedule(r)).K
        /\ r = 1 => e.sigma = fin.sigma
        /\ SameFrac(fin.gamma, [num |-> 1, den |-> 1]) => SameFrac(e.sigma, fin.sigma)

\* a call with gamma other than 1 has returned after two rounds or more, and
\* the kernel of its second round is not the one the caller's sigma gives
C16_Witness ==
  /\ fpc = "done" /\ fin.iterations >= 2 /\ Len(frun.log) = fin.iterations
  /\ ~SameFrac(fin.gamma, [num |-> 1, den |-> 1])
  /\ ~SameFrac(frun.log[2].sigma, fin.sigma)
  /\ frun.log[2].P # product_manifold_kernel(fin.gx, fin.gy, frun.log[2].i,
                                             frun.log[2].j, fin.sigma).K

(* ----------------- rank assignments and eigenbasis reads --------------- *)
\* mesh.k = k, any number of times
Assign_k ==
  \E k \in Ranks :
    /\ mesh' = Mesh_set_k(mesh, k)
    /\ calls' = NoCalls
    /\ mut' = [op |-> "set_k", k0 |-> mesh.k, eigen0 |-> mesh.eigen]
    /\ UNCHANGED <<res, resInfo, ops, filterVars, auxVars>>

RankNext == Assign_k \/ Read_eigen

\* any sequence of rank assignments and eigenbasis reads on one Mesh
RankSpec == Init /\ [][RankNext]_vars

\* C18: the eigenbasis cache is empty, or it holds as many eigenvalues and as
\* many eigenvector columns as the rank is.
C18_EigenCacheHoldsRank ==
  \/ mesh.eigen = EmptyEigen
  \/ Len(mesh.eigen[1]) = mesh.k /\ Len(mesh.eigen[2]) = mesh.k

\* an eigenbasis cached at a smaller rank, the rank raised, the eigenbasis
\* read again: the cache holds the pairs of the larger rank
C18_Witness ==
  /\ mut.op = "set_k" /\ EigenCached(mut.eigen0)
  /\ 1 <= mut.k0 /\ mut.k0 < mesh.k
  /\ EigenCached(mesh.eigen) /\ Len(mesh.eigen[1]) = mesh.k

(* -------------------- what the resampling calls do --------------------- *)
\* C19 (as claimed): every call of upsample returns, also for a target not
\* above the number of vertices of the source, and the mesh it returns has no
\* fewer vertices than the source.
C19_UpsampleReturns ==
  resInfo.op = "upsample" =>
    /\ ~resInfo.raised
    /\ N(res) >= Len(resInfo.v0)

\* C20 (as claimed): a call of indexing or decimate invokes no computation on
\* the source and leaves every empty cache of the source empty, and the result
\* has a geodesic matrix exactly when the source had one cached.
C20_ResampleComputesNothing ==
  [][ (ops' = ops + 1 /\ resInfo'.op \in {"getitem", "decimate"}) =>
        /\ calls' = calls
        /\ \A p \in Computations : CacheEmpty(mesh, p) => CacheEmpty(mesh', p)
        /\ (res'.g # << >>) <=> (mesh.g # << >>) ]_vars

====
